---- MODULE Spec2Model ----
(***************************************************************************)
(* Model of the ESLint rule "simple-emotion-styles"                        *)
(* (src/src/rules/simple-emotion-styles.ts).                               *)
(*                                                                         *)
(* The rule is run on one JSX opening element that carries at most one     *)
(* attribute.  The source text is a sequence of tokens; the host parses    *)
(* it into a tree whose nodes carry their token range, calls the rule's    *)
(* two visitors on the matching nodes in traversal order, and afterwards   *)
(* applies fixes and lints the rewritten text again.                       *)
(*                                                                         *)
(* Positions are token indices (1-based): every edit of the rule removes   *)
(* or replaces whole tokens or whole nodes, so two edits overlap in the    *)
(* text iff their token ranges overlap.  The text of one object property   *)
(* is kept as a single lexeme: no token query of the rule starts inside a  *)
(* property.                                                               *)
(***************************************************************************)
EXTENDS Integers, Sequences, FiniteSets

VARIABLES
    tokens,     \* the source text under lint, a sequence of tokens
    ast,        \* the host's parse of tokens
    queue,      \* visitor calls of the running traversal still to be made
    calls,      \* the visitor calls made so far in this traversal
    pc,         \* "lint" | "crashed" (a visitor threw) | "unparsable"
    propsA,     \* Conflict Detector harness: first property list
    propsB,     \* Conflict Detector harness: second property list
    canMerge    \* Conflict Detector harness: "unset" or the BOOLEAN result

vars == <<tokens, ast, queue, calls, pc, propsA, propsB, canMerge>>

(***************************************************************************)
(* Bounds of the model.                                                    *)
(***************************************************************************)
\* nodes (expressions and elided slots) in the attribute's expression
MaxSize == 3
\* items in a flat list: an array or a css call whose items are all leaves
MaxItems == 3
\* properties in one list handed to the Conflict Detector harness
MaxConflictProps == 2
\* items in a list handed to the List Simplifier on its own
MaxChain == 4

(***************************************************************************)
(* Tokens.                                                                 *)
(***************************************************************************)
Punctuator(v) == [type |-> "Punctuator", value |-> v]
IdentifierToken(v) == [type |-> "Identifier", value |-> v]
JSXIdentifierToken(v) == [type |-> "JSXIdentifier", value |-> v]
StringToken(v) == [type |-> "String", value |-> v]
PropertyToken(v) == [type |-> "Property", value |-> v]

\* the source texts of the properties the model writes
PropertyTexts == {"a", "b", "'a'", "1", "'1'", "[k]", "...s"}

(***************************************************************************)
(* JavaScript primitive values, as far as === tells them apart.            *)
(***************************************************************************)
JSString(s) == [typeof |-> "string", repr |-> s]
JSNumber(s) == [typeof |-> "number", repr |-> s]
undefined == [typeof |-> "undefined", repr |-> ""]
StrictEquals(x, y) == x.typeof = y.typeof /\ x.repr = y.repr
\* the property key a key value names at run time (ToPropertyKey)
ToPropertyKey(x) == x.repr

\* an elided array element
null == [type |-> "null"]

(***************************************************************************)
(* The host's parser: the tree of one object property from its text.       *)
(***************************************************************************)
IdentifierKey(n) == [type |-> "Identifier", name |-> JSString(n), value |-> undefined]
LiteralKey(v) == [type |-> "Literal", name |-> undefined, value |-> v]

PropertyNode(text, i) ==
    CASE text = "a" ->
            [type |-> "Property", computed |-> FALSE, key |-> IdentifierKey("a"), range |-> <<i, i>>]
      [] text = "b" ->
            [type |-> "Property", computed |-> FALSE, key |-> IdentifierKey("b"), range |-> <<i, i>>]
      [] text = "c" ->
            [type |-> "Property", computed |-> FALSE, key |-> IdentifierKey("c"), range |-> <<i, i>>]
      [] text = "d" ->
            [type |-> "Property", computed |-> FALSE, key |-> IdentifierKey("d"), range |-> <<i, i>>]
      [] text = "'a'" ->
            [type |-> "Property", computed |-> FALSE, key |-> LiteralKey(JSString("a")), range |-> <<i, i>>]
      [] text = "1" ->
            [type |-> "Property", computed |-> FALSE, key |-> LiteralKey(JSNumber("1")), range |-> <<i, i>>]
      [] text = "'1'" ->
            [type |-> "Property", computed |-> FALSE, key |-> LiteralKey(JSString("1")), range |-> <<i, i>>]
      [] text = "[k]" ->
            [type |-> "Property", computed |-> TRUE, key |-> IdentifierKey("k"), range |-> <<i, i>>]
      [] OTHER ->
            [type |-> "SpreadElement", computed |-> FALSE, key |-> IdentifierKey(""), range |-> <<i, i>>]

(***************************************************************************)
(* Source texts.  A shape is an expression as written: its kind, its       *)
(* children in order, and whether a separator follows the last child.      *)
(***************************************************************************)
IdentifierShape(n) ==
    [type |-> "Identifier", name |-> n, elements |-> <<>>, properties |-> <<>>, trailing |-> FALSE]
ElisionShape ==
    [type |-> "null", name |-> "", elements |-> <<>>, properties |-> <<>>, trailing |-> FALSE]
ArrayShape(es, t) ==
    [type |-> "ArrayExpression", name |-> "", elements |-> es, properties |-> <<>>, trailing |-> t]
CallShape(n, es, t) ==
    [type |-> "CallExpression", name |-> n, elements |-> es, properties |-> <<>>, trailing |-> t]
ObjectShape(ps, t) ==
    [type |-> "ObjectExpression", name |-> "", elements |-> <<>>, properties |-> ps, trailing |-> t]
EmptyExpressionShape ==
    [type |-> "JSXEmptyExpression", name |-> "", elements |-> <<>>, properties |-> <<>>, trailing |-> FALSE]

RECURSIVE TextOfProperties(_, _)
TextOfProperties(ps, trailing) ==
    IF ps = <<>> THEN <<>>
    ELSE <<PropertyToken(Head(ps))>>
         \o (IF Len(ps) > 1 \/ trailing THEN <<Punctuator(",")>> ELSE <<>>)
         \o TextOfProperties(Tail(ps), trailing)

RECURSIVE TextOf(_), TextOfItems(_, _)
TextOf(s) ==
    CASE s.type = "Identifier" -> <<IdentifierToken(s.name)>>
      [] s.type = "ArrayExpression" ->
            <<Punctuator("[")>> \o TextOfItems(s.elements, s.trailing) \o <<Punctuator("]")>>
      [] s.type = "CallExpression" ->
            <<IdentifierToken(s.name), Punctuator("(")>>
            \o TextOfItems(s.elements, s.trailing) \o <<Punctuator(")")>>
      [] s.type = "ObjectExpression" ->
            <<Punctuator("{")>> \o TextOfProperties(s.properties, s.trailing) \o <<Punctuator("}")>>
      [] OTHER -> <<>>

\* an elided slot is written as its separator alone
TextOfItems(items, trailing) ==
    IF items = <<>> THEN <<>>
    ELSE TextOf(Head(items))
         \o (IF Len(items) > 1 \/ Head(items).type = "null" \/ trailing
             THEN <<Punctuator(",")>> ELSE <<>>)
         \o TextOfItems(Tail(items), trailing)

\* name={expression}, or name="text" when the value is a string literal
TextOfAttribute(name, valueType, s) ==
    IF valueType = "JSXExpressionContainer"
    THEN <<JSXIdentifierToken(name), Punctuator("="), Punctuator("{")>>
         \o TextOf(s) \o <<Punctuator("}")>>
    ELSE <<JSXIdentifierToken(name), Punctuator("="), StringToken("text")>>

(***************************************************************************)
(* The host's parser.  Every node carries range = <<first, last>>, the     *)
(* indices of its first and last token.  A text that is no attribute       *)
(* parses to a SyntaxError node.                                           *)
(***************************************************************************)
SyntaxError == [type |-> "SyntaxError"]
IsError(r) == r.node.type = "SyntaxError"
Failed == [node |-> SyntaxError, next |-> 0]
TokenAt(toks, i) == IF i >= 1 /\ i <= Len(toks) THEN toks[i] ELSE [type |-> "EOF", value |-> ""]

\* the properties of an object literal from token i on: the list and the index of "}"
RECURSIVE ParseProperties(_, _, _)
ParseProperties(toks, i, acc) ==
    LET t == TokenAt(toks, i) IN
    IF t = Punctuator("}") THEN [ok |-> TRUE, list |-> acc, close |-> i]
    ELSE IF t.type = "Property"
    THEN LET p == PropertyNode(t.value, i)
             u == TokenAt(toks, i + 1) IN
         IF u = Punctuator(",") THEN ParseProperties(toks, i + 2, Append(acc, p))
         ELSE IF u = Punctuator("}") THEN [ok |-> TRUE, list |-> Append(acc, p), close |-> i + 1]
         ELSE [ok |-> FALSE, list |-> <<>>, close |-> 0]
    ELSE [ok |-> FALSE, list |-> <<>>, close |-> 0]

RECURSIVE ParseExpression(_, _), ParseItems(_, _, _, _, _)
ParseExpression(toks, i) ==
    LET t == TokenAt(toks, i) IN
    CASE t = Punctuator("[") ->
            LET r == ParseItems(toks, i + 1, <<>>, "]", TRUE) IN
            IF r.ok
            THEN [node |-> [type |-> "ArrayExpression", elements |-> r.list,
                            range |-> <<i, r.close>>],
                  next |-> r.close + 1]
            ELSE Failed
      [] t = Punctuator("{") ->
            LET r == ParseProperties(toks, i + 1, <<>>) IN
            IF r.ok
            THEN [node |-> [type |-> "ObjectExpression", properties |-> r.list,
                            range |-> <<i, r.close>>],
                  next |-> r.close + 1]
            ELSE Failed
      [] t.type = "Identifier" ->
            IF TokenAt(toks, i + 1) = Punctuator("(")
            THEN LET r == ParseItems(toks, i + 2, <<>>, ")", FALSE) IN
                 IF r.ok
                 THEN [node |-> [type |-> "CallExpression",
                                 callee |-> [type |-> "Identifier", name |-> t.value,
                                             range |-> <<i, i>>],
                                 arguments |-> r.list,
                                 range |-> <<i, r.close>>],
                       next |-> r.close + 1]
                 ELSE Failed
            ELSE [node |-> [type |-> "Identifier", name |-> t.value, range |-> <<i, i>>],
                  next |-> i + 1]
      [] OTHER -> Failed

\* the items of a list up to its closer; a separator with no item before it is
\* an elided slot where the list allows one (array elements, not call arguments)
ParseItems(toks, i, acc, closer, elisions) ==
    LET t == TokenAt(toks, i) IN
    IF t = Punctuator(closer) THEN [ok |-> TRUE, list |-> acc, close |-> i]
    ELSE IF t = Punctuator(",")
    THEN IF elisions THEN ParseItems(toks, i + 1, Append(acc, null), closer, elisions)
         ELSE [ok |-> FALSE, list |-> <<>>, close |-> 0]
    ELSE LET e == ParseExpression(toks, i) IN
         IF IsError(e) THEN [ok |-> FALSE, list |-> <<>>, close |-> 0]
         ELSE LET u == TokenAt(toks, e.next) IN
              IF u = Punctuator(",")
              THEN ParseItems(toks, e.next + 1, Append(acc, e.node), closer, elisions)
              ELSE IF u = Punctuator(closer)
              THEN [ok |-> TRUE, list |-> Append(acc, e.node), close |-> e.next]
              ELSE [ok |-> FALSE, list |-> <<>>, close |-> 0]

\* name = { expression? }  |  name = "text"
ParseAttribute(toks) ==
    IF Len(toks) >= 3 /\ toks[1].type = "JSXIdentifier" /\ toks[2] = Punctuator("=")
    THEN LET name == [type |-> "JSXIdentifier", name |-> toks[1].value] IN
         IF toks[3].type = "String" /\ Len(toks) = 3
         THEN [type |-> "JSXAttribute", name |-> name, range |-> <<1, 3>>,
               value |-> [type |-> "Literal", expression |-> null, range |-> <<3, 3>>]]
         ELSE IF toks[3] = Punctuator("{") /\ Len(toks) = 4 /\ toks[4] = Punctuator("}")
         THEN [type |-> "JSXAttribute", name |-> name, range |-> <<1, 4>>,
               value |-> [type |-> "JSXExpressionContainer",
                          expression |-> [type |-> "JSXEmptyExpression"],
                          range |-> <<3, 4>>]]
         ELSE IF toks[3] = Punctuator("{")
         THEN LET e == ParseExpression(toks, 4) IN
              IF ~IsError(e) /\ e.next = Len(toks) /\ toks[e.next] = Punctuator("}")
              THEN [type |-> "JSXAttribute", name |-> name, range |-> <<1, Len(toks)>>,
                    value |-> [type |-> "JSXExpressionContainer", expression |-> e.node,
                               range |-> <<3, Len(toks)>>]]
              ELSE SyntaxError
         ELSE SyntaxError
    ELSE SyntaxError

\* the opening element: no attribute when the text is empty
Parse(toks) ==
    IF toks = <<>> THEN [type |-> "JSXOpeningElement", attributes |-> <<>>]
    ELSE LET a == ParseAttribute(toks) IN
         IF a.type = "SyntaxError" THEN SyntaxError
         ELSE [type |-> "JSXOpeningElement", attributes |-> <<a>>]

(***************************************************************************)
(* The host's token queries and fixer.  A token handed to the rule         *)
(* carries its type, its value and its range; null stands for no token.    *)
(* An edit replaces the tokens range[1]..range[2] by text.                 *)
(***************************************************************************)
IsNull(x) == x.type = "null"
TokenRef(sourceCode, i) ==
    [type |-> sourceCode[i].type, value |-> sourceCode[i].value, range |-> <<i, i>>]
Least(S) == CHOOSE i \in S : \A j \in S : i <= j
Greatest(S) == CHOOSE i \in S : \A j \in S : i >= j

\* a filter is a token type and a value, AnyValue for every value
AnyValue == "*"
Matches(token, filter) ==
    token.type = filter.type /\ (filter.value = AnyValue \/ token.value = filter.value)

getTokenAfter(sourceCode, node, filter) ==
    LET S == {i \in (node.range[2] + 1)..Len(sourceCode) : Matches(sourceCode[i], filter)} IN
    IF S = {} THEN null ELSE TokenRef(sourceCode, Least(S))

getFirstToken(sourceCode, node, filter) ==
    LET S == {i \in node.range[1]..node.range[2] : Matches(sourceCode[i], filter)} IN
    IF S = {} THEN null ELSE TokenRef(sourceCode, Least(S))

getLastToken(sourceCode, node, filter) ==
    LET S == {i \in node.range[1]..node.range[2] : Matches(sourceCode[i], filter)} IN
    IF S = {} THEN null ELSE TokenRef(sourceCode, Greatest(S))

getFirstTokenBetween(sourceCode, left, right, filter) ==
    LET S == {i \in (left.range[2] + 1)..(right.range[1] - 1) : Matches(sourceCode[i], filter)} IN
    IF S = {} THEN null ELSE TokenRef(sourceCode, Least(S))

remove(nodeOrToken) == [range |-> nodeOrToken.range, text |-> <<>>]
replaceText(nodeOrToken, text) == [range |-> nodeOrToken.range, text |-> text]
\* "if (token) yield edit"
YieldIf(token, edit) == IF IsNull(token) THEN <<>> ELSE <<edit>>

(***************************************************************************)
(* The rule: the Conflict Detector.                                        *)
(***************************************************************************)
\* the check without its "!element.computed"
hasNonComputedNameSpreadOnly(element) ==
    element.type # "SpreadElement"

hasNonComputedName(element) ==
    element.type # "SpreadElement" /\ ~element.computed

allHaveNonComputedNames(elements) ==
    ~(\E i \in 1..Len(elements) : ~hasNonComputedName(elements[i]))

\* a.key.type === Literal ? a.key.value : a.key.name
KeyOf(a) == IF a.key.type = "Literal" THEN a.key.value ELSE a.key.name

noPropertyConflicts(as, bs) ==
    IF ~allHaveNonComputedNames(as) \/ ~allHaveNonComputedNames(bs)
    THEN FALSE
    ELSE ~(\E i \in 1..Len(as) : \E j \in 1..Len(bs) :
             StrictEquals(KeyOf(as[i]), KeyOf(bs[j])))

(***************************************************************************)
(* The rule: separator lookups.                                            *)
(***************************************************************************)
getCommaAfter(sourceCode, node) ==
    LET token == getTokenAfter(sourceCode, node, Punctuator(AnyValue)) IN
    IF ~IsNull(token) /\ token.value = "," THEN token ELSE null

\* the lookup that never finds a trailing separator
getTrailingCommaNever(sourceCode, elements, closer) == null

getTrailingComma(sourceCode, elements, closer) ==
    LET lastElement == IF Len(elements) = 0 THEN null ELSE elements[Len(elements)] IN
    IF ~IsNull(lastElement) /\ ~IsNull(closer)
    THEN getFirstTokenBetween(sourceCode, lastElement, closer,
                              Punctuator(","))
    ELSE null

(***************************************************************************)
(* The rule: one report per recipe.  getSourceCode is the text under lint. *)
(***************************************************************************)
getSourceCode == tokens

\* the fix removing the attribute's value and leaving its name
removeEmptyCssAttributeValueOnly(node) ==
    [messageId |-> "removeEmptyCssAttribute", fix |-> <<remove(node.value)>>]

removeEmptyCssAttribute(node) ==
    [messageId |-> "removeEmptyCssAttribute", fix |-> <<remove(node)>>]

replaceCssCallWithArray(node) ==
    LET sourceCode == getSourceCode
        openParen == getTokenAfter(sourceCode, node.callee, Punctuator("("))
        closeParen == getLastToken(sourceCode, node, Punctuator(")"))
    IN [messageId |-> "replaceCssCallWithArray",
        fix |-> <<remove(node.callee)>>
                \o YieldIf(openParen, replaceText(openParen, <<Punctuator("[")>>))
                \o YieldIf(closeParen, replaceText(closeParen, <<Punctuator("]")>>))]

flattenArray(node) ==
    LET sourceCode == getSourceCode
        openBracket == getFirstToken(sourceCode, node, Punctuator("["))
        closeBracket == getLastToken(sourceCode, node, Punctuator("]"))
        commaAfter == getCommaAfter(sourceCode, node)
        trailingComma == getTrailingComma(sourceCode, node.elements, closeBracket)
    IN [messageId |-> "flattenArray",
        fix |-> YieldIf(openBracket, remove(openBracket))
                \o YieldIf(closeBracket, remove(closeBracket))
                \o (IF Len(node.elements) = 0
                    THEN YieldIf(commaAfter, remove(commaAfter))
                    ELSE YieldIf(trailingComma, remove(trailingComma)))]

flattenCssCall(node) ==
    LET sourceCode == getSourceCode
        openParen == getTokenAfter(sourceCode, node.callee, Punctuator("("))
        closeParen == getLastToken(sourceCode, node, Punctuator(")"))
        commaAfter == getCommaAfter(sourceCode, node)
        trailingComma == getTrailingComma(sourceCode, node.arguments, closeParen)
    IN [messageId |-> "flattenCssCall",
        fix |-> <<remove(node.callee)>>
                \o YieldIf(openParen, remove(openParen))
                \o YieldIf(closeParen, remove(closeParen))
                \o (IF Len(node.arguments) = 0
                    THEN YieldIf(commaAfter, remove(commaAfter))
                    ELSE YieldIf(trailingComma, remove(trailingComma)))]

removeEmptyObjectFromCssList(node) ==
    LET sourceCode == getSourceCode
        openBrace == getFirstToken(sourceCode, node, Punctuator("{"))
        closeBrace == getLastToken(sourceCode, node, Punctuator("}"))
        commaAfter == getCommaAfter(sourceCode, node)
    IN [messageId |-> "removeEmptyObjectFromCssList",
        fix |-> YieldIf(openBrace, remove(openBrace))
                \o YieldIf(closeBrace, remove(closeBrace))
                \o YieldIf(commaAfter, remove(commaAfter))]

\* a merge that moves the second object's properties, and puts them in front
combineAdjacentObjectsMovingToFront(node, nextNode) ==
    LET sourceCode == getSourceCode
        openBrace == getFirstToken(sourceCode, node, Punctuator("{"))
        moved == SubSeq(sourceCode, nextNode.properties[1].range[1],
                        nextNode.properties[Len(nextNode.properties)].range[2])
    IN [messageId |-> "combineAdjacentObjects",
        fix |-> IF nextNode.properties = <<>> THEN <<remove(nextNode)>>
                ELSE <<replaceText(openBrace, <<Punctuator("{")>> \o moved \o <<Punctuator(",")>>),
                       remove(nextNode)>>]

combineAdjacentObjects(node, nextNode) ==
    LET sourceCode == getSourceCode
        closeBrace == getLastToken(sourceCode, node, Punctuator("}"))
        trailingComma == getTrailingComma(sourceCode, node.properties, closeBrace)
        openBrace == getFirstToken(sourceCode, nextNode, Punctuator("{"))
    IN [messageId |-> "combineAdjacentObjects",
        fix |-> YieldIf(closeBrace, remove(closeBrace))
                \o YieldIf(trailingComma, remove(trailingComma))
                \o YieldIf(openBrace, remove(openBrace))]

(***************************************************************************)
(* The rule: the List Simplifier.  The result is the reports made, in      *)
(* order, and whether the walk threw: reading .type of an elided slot      *)
(* (null) is a TypeError, which ends the walk and the lint run.            *)
(***************************************************************************)
IsCssCall(node) ==
    node.type = "CallExpression"
    /\ node.callee.type = "Identifier" /\ node.callee.name = "css"

\* the walk without "skipNextNode = true"
SkipAfterCombineForgotten == FALSE

\* "skipNextNode = true" after a merge
SkipAfterCombine == TRUE

RECURSIVE simplifyFrom(_, _, _, _)
simplifyFrom(nodes, i, skipNextNode, reports) ==
    IF i > Len(nodes) THEN [reports |-> reports, threw |-> FALSE]
    ELSE IF skipNextNode THEN simplifyFrom(nodes, i + 1, FALSE, reports)
    ELSE LET node == nodes[i]
             nextNode == IF i + 1 <= Len(nodes) THEN nodes[i + 1] ELSE null
         IN
         IF IsNull(node) THEN [reports |-> reports, threw |-> TRUE]
         ELSE IF node.type = "ArrayExpression"
         THEN simplifyFrom(nodes, i + 1, FALSE, Append(reports, flattenArray(node)))
         ELSE IF node.type = "CallExpression"
         THEN IF IsCssCall(node)
              THEN simplifyFrom(nodes, i + 1, FALSE, Append(reports, flattenCssCall(node)))
              ELSE simplifyFrom(nodes, i + 1, FALSE, reports)
         ELSE IF node.type = "ObjectExpression"
         THEN IF Len(node.properties) = 0
              THEN simplifyFrom(nodes, i + 1, FALSE,
                                Append(reports, removeEmptyObjectFromCssList(node)))
              ELSE IF ~IsNull(nextNode) /\ nextNode.type = "ObjectExpression"
                      /\ noPropertyConflicts(node.properties, nextNode.properties)
              THEN simplifyFrom(nodes, i + 1, SkipAfterCombine,
                                Append(reports, combineAdjacentObjects(node, nextNode)))
              ELSE simplifyFrom(nodes, i + 1, FALSE, reports)
         ELSE simplifyFrom(nodes, i + 1, FALSE, reports)

\* the walk with "let skipNextNode = true" at its start
simplifyCssListLikeSkippingFirst(nodes) == simplifyFrom(nodes, 1, TRUE, <<>>)

simplifyCssListLike(nodes) == simplifyFrom(nodes, 1, FALSE, <<>>)

(***************************************************************************)
(* The rule: the two visitors.                                             *)
(***************************************************************************)
Completed(reports) == [reports |-> reports, threw |-> FALSE]

JSXAttributeVisitor(node) ==
    IF ~(node.name.type = "JSXIdentifier" /\ node.name.name = "css"
         /\ node.value.type = "JSXExpressionContainer")
    THEN Completed(<<>>)
    ELSE LET cssValue == node.value.expression IN
         IF cssValue.type = "JSXEmptyExpression"
         THEN Completed(<<removeEmptyCssAttribute(node)>>)
         ELSE IF cssValue.type = "ArrayExpression"
         THEN IF Len(cssValue.elements) = 0
              THEN Completed(<<removeEmptyCssAttribute(node)>>)
              ELSE IF Len(cssValue.elements) = 1
              THEN Completed(<<flattenArray(cssValue)>>)
              ELSE simplifyCssListLike(cssValue.elements)
         ELSE IF cssValue.type = "CallExpression"
         THEN IF IsCssCall(cssValue)
              THEN IF Len(cssValue.arguments) = 0
                   THEN Completed(<<removeEmptyCssAttribute(node)>>)
                   ELSE IF Len(cssValue.arguments) = 1
                   THEN Completed(<<flattenCssCall(cssValue)>>)
                   ELSE Completed(<<replaceCssCallWithArray(cssValue)>>)
              ELSE Completed(<<>>)
         ELSE IF cssValue.type = "ObjectExpression"
         THEN IF Len(cssValue.properties) = 0
              THEN Completed(<<removeEmptyCssAttribute(node)>>)
              ELSE Completed(<<>>)
         ELSE Completed(<<>>)

CallExpressionVisitor(node) ==
    IF ~IsCssCall(node) THEN Completed(<<>>)
    ELSE simplifyCssListLike(node.arguments)

(***************************************************************************)
(* The host: traversal.  The visitors are called on entering a node, in    *)
(* source order: the attribute first, then every call expression under it. *)
(***************************************************************************)
RECURSIVE CallExpressionsIn(_), CallExpressionsInAll(_)
CallExpressionsIn(node) ==
    CASE node.type = "CallExpression" ->
            <<[visitor |-> "CallExpression", node |-> node]>>
            \o CallExpressionsInAll(node.arguments)
      [] node.type = "ArrayExpression" -> CallExpressionsInAll(node.elements)
      [] OTHER -> <<>>

CallExpressionsInAll(nodes) ==
    IF nodes = <<>> THEN <<>>
    ELSE CallExpressionsIn(Head(nodes)) \o CallExpressionsInAll(Tail(nodes))

Visits(tree) ==
    IF tree.type # "JSXOpeningElement" \/ tree.attributes = <<>> THEN <<>>
    ELSE LET attribute == tree.attributes[1] IN
         <<[visitor |-> "JSXAttribute", node |-> attribute]>>
         \o (IF attribute.value.type = "JSXExpressionContainer"
             THEN CallExpressionsIn(attribute.value.expression)
             ELSE <<>>)

(***************************************************************************)
(* The host: applying fixes.  The fix of a report is applied whole or not  *)
(* at all; reports whose fixes overlap (taking each fix as the span from   *)
(* its first to its last edit) are never applied together.                 *)
(***************************************************************************)
Overlap(e, f) == e.range[1] <= f.range[2] /\ f.range[1] <= e.range[2]

EditsOf(report) == {report.fix[i] : i \in 1..Len(report.fix)}

\* the span from a fix's first edit to its last
Span(report) ==
    [range |-> <<Least({e.range[1] : e \in EditsOf(report)}),
                 Greatest({e.range[2] : e \in EditsOf(report)})>>,
     text |-> <<>>]

RECURSIVE ApplyFrom(_, _, _)
ApplyFrom(toks, edits, i) ==
    IF i > Len(toks) THEN <<>>
    ELSE LET starting == {e \in edits : e.range[1] = i}
             covered == \E e \in edits : e.range[1] <= i /\ i <= e.range[2]
         IN (IF starting = {} THEN <<>> ELSE (CHOOSE e \in starting : TRUE).text)
            \o (IF covered THEN <<>> ELSE <<toks[i]>>)
            \o ApplyFrom(toks, edits, i + 1)

ApplyEdits(toks, edits) == ApplyFrom(toks, edits, 1)

RECURSIVE Flatten(_)
Flatten(ss) == IF ss = <<>> THEN <<>> ELSE Head(ss) \o Flatten(Tail(ss))

\* the reports of the traversal so far, in the order made
Reports == Flatten([k \in 1..Len(calls) |-> calls[k].reports])

\* the sets of reports (by index) the host may fix together
Fixable ==
    {D \in SUBSET (1..Len(Reports)) :
        /\ D # {}
        /\ \A i \in D : Reports[i].fix # <<>>
        /\ \A i, j \in D : i # j => ~Overlap(Span(Reports[i]), Span(Reports[j]))}

FixOutput(D) == ApplyEdits(tokens, UNION {EditsOf(Reports[i]) : i \in D})

(***************************************************************************)
(* The linted texts of the model: css={e} for every expression e of at     *)
(* most MaxSize nodes (expressions and elided slots) over the leaves x,    *)
(* the object literals of ObjectShapes, and arrays and calls of css and    *)
(* cx, with and without a separator after the last item; css={l} for the   *)
(* flat lists l (arrays and css calls) of at most MaxItems leaves; and a   *)
(* few texts the attribute visitor leaves alone.  The texts are written    *)
(* left to right: Write continues toks where an expression is expected,    *)
(* Item where an item or the closer of the innermost open list is, Wrote   *)
(* where an expression has just ended; budget is the number of nodes still *)
(* allowed and closers the closers of the open lists, innermost last.      *)
(***************************************************************************)
SeqsUpTo(S, n) == UNION {[1..k -> S] : k \in 0..n}

\* the object literals of the linted texts: {}, {a}, {a,}, {b}, {...s}, {b, a,}
ObjectShapes ==
    {ObjectShape(<<>>, FALSE), ObjectShape(<<"a">>, FALSE), ObjectShape(<<"a">>, TRUE),
     ObjectShape(<<"b">>, FALSE), ObjectShape(<<"...s">>, FALSE),
     ObjectShape(<<"b", "a">>, TRUE)}

LeafTexts == {TextOf(s) : s \in {IdentifierShape("x")} \cup ObjectShapes}

Openers ==
    {[text |-> <<Punctuator("[")>>, closer |-> "]"],
     [text |-> <<IdentifierToken("css"), Punctuator("(")>>, closer |-> ")"],
     [text |-> <<IdentifierToken("cx"), Punctuator("(")>>, closer |-> ")"]}

RECURSIVE Write(_, _, _), Item(_, _, _), Wrote(_, _, _), Close(_, _, _)
Write(toks, budget, closers) ==
    /\ budget >= 1
    /\ \/ \E leaf \in LeafTexts : Wrote(toks \o leaf, budget - 1, closers)
       \/ \E o \in Openers : Item(toks \o o.text, budget - 1, Append(closers, o.closer))

Close(toks, budget, closers) ==
    Wrote(Append(toks, Punctuator(closers[Len(closers)])), budget,
          SubSeq(closers, 1, Len(closers) - 1))

Item(toks, budget, closers) ==
    \/ Close(toks, budget, closers)
    \/ Write(toks, budget, closers)
    \/ /\ closers[Len(closers)] = "]" /\ budget >= 1
       /\ Item(Append(toks, Punctuator(",")), budget - 1, closers)

Wrote(toks, budget, closers) ==
    IF closers = <<>> THEN tokens = Append(toks, Punctuator("}"))
    ELSE \/ Close(toks, budget, closers)
         \/ Item(Append(toks, Punctuator(",")), budget, closers)

\* flat lists: css={[l1, ..., ln]} and css={css(l1, ..., ln)} of leaves, with or
\* without a trailing comma
RECURSIVE List(_, _, _), Listed(_, _, _)
List(toks, budget, closer) ==
    /\ budget >= 1
    /\ \E leaf \in LeafTexts : Listed(toks \o leaf, budget - 1, closer)

Listed(toks, budget, closer) ==
    \/ tokens = toks \o <<Punctuator(closer), Punctuator("}")>>
    \/ tokens = toks \o <<Punctuator(","), Punctuator(closer), Punctuator("}")>>
    \/ List(Append(toks, Punctuator(",")), budget, closer)

OtherTexts ==
    {TextOfAttribute("css", "JSXExpressionContainer", EmptyExpressionShape),
     TextOfAttribute("css", "Literal", EmptyExpressionShape),
     <<>>}
    \cup {TextOfAttribute("sx", "JSXExpressionContainer", s) :
            s \in {ArrayShape(<<>>, FALSE), CallShape("css", <<ObjectShape(<<>>, FALSE)>>, FALSE)}}

(***************************************************************************)
(* The lint-and-fix loop.                                                  *)
(***************************************************************************)
NoHarness == propsA = <<>> /\ propsB = <<>> /\ canMerge = <<>>

Init ==
    /\ \/ tokens \in OtherTexts
       \/ Write(<<JSXIdentifierToken("css"), Punctuator("="), Punctuator("{")>>, MaxSize, <<>>)
       \/ \E o \in {o \in Openers : o.text[1].value # "cx"} :
             List(<<JSXIdentifierToken("css"), Punctuator("="), Punctuator("{")>> \o o.text,
                  MaxItems, o.closer)
    /\ ast = Parse(tokens)
    /\ queue = Visits(ast)
    /\ calls = <<>>
    /\ pc = "lint"
    /\ NoHarness

Visit(result) ==
    /\ calls' = Append(calls, [visitor |-> Head(queue).visitor,
                               range |-> Head(queue).node.range,
                               reports |-> result.reports,
                               threw |-> result.threw])
    /\ queue' = Tail(queue)
    /\ pc' = IF result.threw THEN "crashed" ELSE "lint"
    /\ UNCHANGED <<tokens, ast, propsA, propsB, canMerge>>

\* the host calls the attribute visitor
JSXAttribute ==
    /\ pc = "lint" /\ queue # <<>> /\ Head(queue).visitor = "JSXAttribute"
    /\ Visit(JSXAttributeVisitor(Head(queue).node))

\* the host calls the call-expression visitor
CallExpression ==
    /\ pc = "lint" /\ queue # <<>> /\ Head(queue).visitor = "CallExpression"
    /\ Visit(CallExpressionVisitor(Head(queue).node))

\* the traversal is over: the host applies fixes and parses the output again
Fix ==
    /\ pc = "lint" /\ queue = <<>>
    /\ \E D \in Fixable :
          /\ tokens' = FixOutput(D)
          /\ ast' = Parse(tokens')
          /\ queue' = Visits(ast')
          /\ pc' = IF ast'.type = "SyntaxError" THEN "unparsable" ELSE "lint"
    /\ calls' = <<>>
    /\ UNCHANGED <<propsA, propsB, canMerge>>

Next == JSXAttribute \/ CallExpression \/ Fix

Spec == Init /\ [][Next]_vars

(***************************************************************************)
(* The List Simplifier on longer lists: css={[i1, ..., in]} and            *)
(* css={css(i1, ..., in)} of at most MaxChain items, each one of the       *)
(* objects {a}, {b}, {c}, {d}, {} or the array [x, x]; linted and fixed as *)
(* in Spec.                                                                *)
(***************************************************************************)
ChainItems ==
    {TextOf(s) : s \in {ObjectShape(<<"a">>, FALSE), ObjectShape(<<"b">>, FALSE),
                        ObjectShape(<<"c">>, FALSE), ObjectShape(<<"d">>, FALSE),
                        ObjectShape(<<>>, FALSE),
                        ArrayShape(<<IdentifierShape("x"), IdentifierShape("x")>>, FALSE)}}

RECURSIVE Chain(_, _, _), Chained(_, _, _)
Chain(toks, budget, closer) ==
    /\ budget >= 1
    /\ \E item \in ChainItems : Chained(toks \o item, budget - 1, closer)

Chained(toks, budget, closer) ==
    \/ tokens = toks \o <<Punctuator(closer), Punctuator("}")>>
    \/ Chain(Append(toks, Punctuator(",")), budget, closer)

InitList ==
    /\ \E o \in {o \in Openers : o.text[1].value # "cx"} :
          Chain(<<JSXIdentifierToken("css"), Punctuator("="), Punctuator("{")>> \o o.text,
                MaxChain, o.closer)
    /\ ast = Parse(tokens)
    /\ queue = Visits(ast)
    /\ calls = <<>>
    /\ pc = "lint"
    /\ NoHarness

SpecList == InitList /\ [][Next]_vars

(***************************************************************************)
(* The Conflict Detector on its own: two property lists, then the verdict. *)
(***************************************************************************)
PropertyLists ==
    {[i \in 1..Len(ts) |-> PropertyNode(ts[i], i)] : ts \in SeqsUpTo(PropertyTexts, MaxConflictProps)}

InitConflict ==
    /\ tokens = <<>> /\ ast = Parse(<<>>) /\ queue = <<>> /\ calls = <<>> /\ pc = "lint"
    /\ propsA \in PropertyLists
    /\ propsB \in PropertyLists
    /\ canMerge = <<>>

Detect ==
    /\ canMerge = <<>>
    /\ canMerge' = <<noPropertyConflicts(propsA, propsB)>>
    /\ UNCHANGED <<tokens, ast, queue, calls, pc, propsA, propsB>>

NextConflict == Detect

SpecConflict == InitConflict /\ [][NextConflict]_vars

\* every text of the model is one the host can parse
TextsParse == ast.type = "SyntaxError" => pc = "unparsable"

(***************************************************************************)
(* Conflict Detector claims (SpecConflict).                                *)
(***************************************************************************)
\* a spread or a property with a computed key: its key is not known statically
IsOpaque(p) == p.type = "SpreadElement" \/ p.computed
HasOpaque(ps) == \E i \in 1..Len(ps) : IsOpaque(ps[i])
\* the key a property with a static key names at run time
DenotedKey(p) == ToPropertyKey(IF p.key.type = "Literal" THEN p.key.value ELSE p.key.name)
SharesKey(as, bs) ==
    \E i \in 1..Len(as) : \E j \in 1..Len(bs) :
        ~IsOpaque(as[i]) /\ ~IsOpaque(bs[j]) /\ DenotedKey(as[i]) = DenotedKey(bs[j])

\* C1: whenever some property of A and some property of B denote the same key,
\* whether written as a literal or as a plain name, the detector answers false.
C1_SharedKeyNeverMerges ==
    (canMerge # <<>> /\ SharesKey(propsA, propsB)) => canMerge = <<FALSE>>

\* C2: whenever a property of A or of B is a spread or has a computed key, the
\* detector answers false, whatever the other properties are and also when the
\* other list is empty.
C2_OpaqueNeverMerges ==
    (canMerge # <<>> /\ (HasOpaque(propsA) \/ HasOpaque(propsB))) => canMerge = <<FALSE>>

\* C2 witness: a computed key in B against an empty A has been answered false.
C2_Witness ==
    /\ canMerge = <<FALSE>>
    /\ propsA = <<>>
    /\ Len(propsB) = 1 /\ propsB[1].type = "Property" /\ propsB[1].computed

(***************************************************************************)
(* Claims about the lint-and-fix loop (Spec).                              *)
(***************************************************************************)
\* all edits of a sequence of reports, in the order yielded
AllEdits(reports) == Flatten([i \in 1..Len(reports) |-> reports[i].fix])
PairwiseDisjoint(edits) ==
    \A i, j \in 1..Len(edits) : i < j => ~Overlap(edits[i], edits[j])

\* the text has the designated attribute with a wrapped expression
HasCssAttribute ==
    /\ ast.type = "JSXOpeningElement" /\ ast.attributes # <<>>
    /\ ast.attributes[1].name.name = "css"
    /\ ast.attributes[1].value.type = "JSXExpressionContainer"
Attribute == ast.attributes[1]
CssValue == Attribute.value.expression
\* the traversal of the current text is over and no visitor threw
PassOver == pc = "lint" /\ queue = <<>> /\ calls # <<>>
TextOfNode(node) == IF IsNull(node) THEN <<>> ELSE SubSeq(tokens, node.range[1], node.range[2])

\* C3: the edits one visitor call emits, within one report and across its
\* reports, are pairwise disjoint.
C3_NonOverlapPerInvocation ==
    \A k \in 1..Len(calls) : PairwiseDisjoint(AllEdits(calls[k].reports))

\* C3 witness: one call of the attribute visitor has made two reports of three
\* edits each (both delimiters and a separator).
C3_Witness ==
    \E k \in 1..Len(calls) :
        /\ calls[k].visitor = "JSXAttribute"
        /\ \E i, j \in 1..Len(calls[k].reports) :
              /\ i < j
              /\ Len(calls[k].reports[i].fix) = 3
              /\ Len(calls[k].reports[j].fix) = 3

\* the property keys of a text, left to right
RECURSIVE KeysOf(_)
KeysOf(toks) ==
    IF toks = <<>> THEN <<>>
    ELSE (IF Head(toks).type = "Property" THEN <<Head(toks)>> ELSE <<>>) \o KeysOf(Tail(toks))
RECURSIVE IsSubsequence(_, _)
IsSubsequence(s, t) ==
    IF s = <<>> THEN TRUE
    ELSE IF t = <<>> THEN FALSE
    ELSE IF Head(s) = Head(t) THEN IsSubsequence(Tail(s), Tail(t))
    ELSE IsSubsequence(s, Tail(t))

\* C4: applying edits emitted by one pass (all of them, or the fixes of any of
\* its reports) leaves the property keys a subsequence of the original keys,
\* in the same order.
C4_OrderPreserved ==
    \A D \in SUBSET (1..Len(Reports)) :
        IsSubsequence(KeysOf(ApplyEdits(tokens, UNION {EditsOf(Reports[i]) : i \in D})),
                      KeysOf(tokens))

\* C4 witness: a pass is over that reported a merge of an object with key a and
\* an object with key b, and applying all its edits leaves the keys a, b.
C4_Witness ==
    /\ PassOver
    /\ \E i \in 1..Len(Reports) : Reports[i].messageId = "combineAdjacentObjects"
    /\ KeysOf(ApplyEdits(tokens, UNION {EditsOf(Reports[i]) : i \in 1..Len(Reports)}))
         = <<PropertyToken("a"), PropertyToken("b")>>

\* an empty marker, an empty array, a css call without arguments, an empty object
IsEmptyValue(e) ==
    \/ e.type = "JSXEmptyExpression"
    \/ e.type = "ArrayExpression" /\ e.elements = <<>>
    \/ e.type = "CallExpression" /\ e.callee.name = "css" /\ e.arguments = <<>>
    \/ e.type = "ObjectExpression" /\ e.properties = <<>>

\* C5: for an empty value of the css attribute the attribute visitor emits one
\* report, removeEmptyCssAttribute, whose one edit deletes the whole attribute,
\* and the pass emits no other edit.
C5_EmptyValueRemovesAttribute ==
    (HasCssAttribute /\ IsEmptyValue(CssValue) /\ calls # <<>>) =>
        /\ calls[1].visitor = "JSXAttribute"
        /\ calls[1].reports = <<[messageId |-> "removeEmptyCssAttribute",
                                 fix |-> <<[range |-> <<1, Len(tokens)>>, text |-> <<>>]>>]>>
        /\ \A k \in 2..Len(calls) : calls[k].reports = <<>>

\* C5 witness: css={css()} has been visited by both visitors, with one report.
C5_Witness ==
    /\ HasCssAttribute /\ PassOver /\ Len(calls) = 2
    /\ CssValue.type = "CallExpression" /\ CssValue.arguments = <<>>
    /\ Len(Reports) = 1

\* an array of one element, or a css call of one argument
IsSingleton(e) ==
    \/ e.type = "ArrayExpression" /\ Len(e.elements) = 1
    \/ e.type = "CallExpression" /\ e.callee.name = "css" /\ Len(e.arguments) = 1
OnlyChild(e) == IF e.type = "ArrayExpression" THEN e.elements[1] ELSE e.arguments[1]

\* C6: for a singleton value of the css attribute, applying the edits of the
\* attribute visitor's report leaves css={child}: the child's tokens, unchanged,
\* and nothing else of the list.
C6_SingletonCollapse ==
    (HasCssAttribute /\ IsSingleton(CssValue) /\ calls # <<>>) =>
        /\ Len(calls[1].reports) = 1
        /\ ApplyEdits(tokens, EditsOf(calls[1].reports[1]))
             = SubSeq(tokens, 1, 3) \o TextOfNode(OnlyChild(CssValue)) \o <<Punctuator("}")>>

\* both are object literals with at least one property, none of them a spread
\* or computed, and no key of the one is a key of the other
Mergeable(a, b) ==
    /\ ~IsNull(a) /\ a.type = "ObjectExpression" /\ a.properties # <<>>
    /\ ~IsNull(b) /\ b.type = "ObjectExpression" /\ b.properties # <<>>
    /\ ~HasOpaque(a.properties) /\ ~HasOpaque(b.properties)
    /\ ~SharesKey(a.properties, b.properties)

\* the merge reports among reports whose fix removes the closing brace of a
MergesOf(reports, a) ==
    {i \in 1..Len(reports) :
        /\ reports[i].messageId = "combineAdjacentObjects"
        /\ remove([range |-> <<a.range[2], a.range[2]>>]) \in EditsOf(reports[i])}

\* the text in which a and b are one object: everything up to a's last property,
\* one separator, everything after b's opening brace
MergedText(a, b) ==
    SubSeq(tokens, 1, a.properties[Len(a.properties)].range[2])
    \o <<Punctuator(",")>>
    \o SubSeq(tokens, b.range[1] + 1, Len(tokens))

\* the pass has reported exactly one merge of a and b, and its edits give MergedText
MergedOnce(a, b) ==
    /\ Cardinality(MergesOf(Reports, a)) = 1
    /\ \A i \in MergesOf(Reports, a) : ApplyEdits(tokens, EditsOf(Reports[i])) = MergedText(a, b)

\* the style lists of the text: the elements of every array and the arguments
\* of every css call
RECURSIVE StyleListsIn(_), StyleListsInAll(_)
StyleListsIn(node) ==
    CASE node.type = "ArrayExpression" -> {node.elements} \cup StyleListsInAll(node.elements)
      [] node.type = "CallExpression" ->
            (IF node.callee.name = "css" THEN {node.arguments} ELSE {})
            \cup StyleListsInAll(node.arguments)
      [] OTHER -> {}
StyleListsInAll(nodes) ==
    IF nodes = <<>> THEN {} ELSE StyleListsIn(Head(nodes)) \cup StyleListsInAll(Tail(nodes))

WalkedList(visit) ==
    IF visit.visitor = "JSXAttribute"
    THEN IF visit.node.name.name = "css"
            /\ visit.node.value.type = "JSXExpressionContainer"
            /\ visit.node.value.expression.type = "ArrayExpression"
            /\ Len(visit.node.value.expression.elements) >= 2
         THEN visit.node.value.expression.elements
         ELSE <<>>
    ELSE IF visit.node.callee.name = "css" THEN visit.node.arguments ELSE <<>>

\* the walk of list gets to item i with its skip flag clear: no elided slot
\* before i has ended the walk, and item i is not the second object of a merge
\* the walk has reported
WalkReaches(list, i, reports) ==
    /\ \A j \in 1..(i - 1) : ~IsNull(list[j])
    /\ ~\E r \in 1..Len(reports) :
          /\ reports[r].messageId = "combineAdjacentObjects"
          /\ remove([range |-> <<list[i].range[1], list[i].range[1]>>]) \in EditsOf(reports[r])

C8_NoFatalErrors == pc # "crashed" /\ \A k \in 1..Len(calls) : ~calls[k].threw

\* the loop has stopped: a visitor threw, the output of a fix does not parse,
\* or the traversal is over and there is nothing to fix
Stopped == pc \in {"crashed", "unparsable"} \/ (pc = "lint" /\ queue = <<>> /\ Fixable = {})

\* C9: the loop stops only at a text on which a completed pass reports nothing.
C9_StopsSimplified ==
    Stopped => (pc = "lint" /\ ast.type = "JSXOpeningElement" /\ queue = <<>> /\ Reports = <<>>)

\* C10: no two edits emitted in one traversal, by whichever visitor calls,
\* overlap.
C10_NonOverlapAcrossPass == PairwiseDisjoint(AllEdits(Reports))

(***************************************************************************)
(* List Simplifier claims.                                                 *)
(***************************************************************************)
\* report merges a into b: its fix removes the closing brace of a and the
\* opening brace of b
MergeOf(report, a, b) ==
    /\ report.messageId = "combineAdjacentObjects"
    /\ ~IsNull(a) /\ a.type = "ObjectExpression"
    /\ ~IsNull(b) /\ b.type = "ObjectExpression"
    /\ remove([range |-> <<a.range[2], a.range[2]>>]) \in EditsOf(report)
    /\ remove([range |-> <<b.range[1], b.range[1]>>]) \in EditsOf(report)

\* C11: every combineAdjacentObjects report of a visitor call is for two
\* adjacent items of the walked list that are both objects with at least one
\* property and that the Conflict Detector allows to merge; a non-empty
\* object followed by an empty object is not merged.
C11_MergeOnlyNonEmptyPair ==
    \A k \in 1..Len(calls) :
        LET list == WalkedList(Visits(ast)[k]) IN
        \A r \in 1..Len(calls[k].reports) :
            calls[k].reports[r].messageId = "combineAdjacentObjects" =>
                \E i \in 1..(Len(list) - 1) :
                    /\ MergeOf(calls[k].reports[r], list[i], list[i + 1])
                    /\ list[i].properties # <<>>
                    /\ list[i + 1].properties # <<>>
                    /\ noPropertyConflicts(list[i].properties, list[i + 1].properties)

\* C12: an array with two or more elements that is an item of a walked list
\* gets no report in the pass: no flattenArray report removes its brackets.
C12_MultiElementItemUntouched ==
    \A k \in 1..Len(calls) :
        LET list == WalkedList(Visits(ast)[k]) IN
        \A i \in 1..Len(list) :
            (~IsNull(list[i]) /\ list[i].type = "ArrayExpression"
             /\ Len(list[i].elements) >= 2 /\ WalkReaches(list, i, calls[k].reports)) =>
                \A r \in 1..Len(Reports) :
                    ~(/\ Reports[r].messageId = "flattenArray"
                      /\ remove([range |-> <<list[i].range[1], list[i].range[1]>>])
                            \in EditsOf(Reports[r]))

\* the merge reports among reports that take item as their first or their
\* second object
MergesWith(reports, item) ==
    {r \in 1..Len(reports) :
        /\ reports[r].messageId = "combineAdjacentObjects"
        /\ \/ remove([range |-> <<item.range[2], item.range[2]>>]) \in EditsOf(reports[r])
           \/ remove([range |-> <<item.range[1], item.range[1]>>]) \in EditsOf(reports[r])}

\* reports holds a merge of items i and i + 1 of list
Merged(reports, list, i) ==
    \E r \in 1..Len(reports) : MergeOf(reports[r], list[i], list[i + 1])

\* the reports of the traversal with an edit inside item, merges left out
OwnReports(item) ==
    {r \in 1..Len(Reports) :
        /\ Reports[r].messageId # "combineAdjacentObjects"
        /\ \E e \in EditsOf(Reports[r]) :
              e.range[1] >= item.range[1] /\ e.range[2] <= item.range[2]}

\* items i..j of list are objects any two of which may be merged
MutuallyMergeable(list, i, j) ==
    \A m, n \in i..j : m < n => Mergeable(list[m], list[n])

\* C13: in one walk of a list every merge report takes exactly two adjacent
\* items, no item is in two merge reports, and the second item of a merge has
\* no report of its own; where the walk gets to the first of three mutually
\* mergeable items A, B, C it merges (A, B) and not (B, C), and of four
\* A, B, C, D it merges (A, B) and (C, D).
C13_OneAheadMerging ==
    \A k \in 1..Len(calls) :
        LET list == WalkedList(Visits(ast)[k])
            reports == calls[k].reports
        IN
        /\ \A r \in 1..Len(reports) :
              reports[r].messageId = "combineAdjacentObjects" =>
                  /\ Cardinality({i \in 1..(Len(list) - 1) :
                                    MergeOf(reports[r], list[i], list[i + 1])}) = 1
                  /\ \A i \in 1..(Len(list) - 1) :
                        MergeOf(reports[r], list[i], list[i + 1]) =>
                            \A e \in EditsOf(reports[r]) :
                                e.range[1] >= list[i].range[1]
                                /\ e.range[2] <= list[i + 1].range[2]
        /\ \A i \in 1..Len(list) :
              (~IsNull(list[i]) /\ list[i].type = "ObjectExpression") =>
                  Cardinality(MergesWith(reports, list[i])) <= 1
        /\ \A i \in 1..(Len(list) - 1) :
              Merged(reports, list, i) => OwnReports(list[i + 1]) = {}
        /\ \A i \in 1..(Len(list) - 2) :
              (MutuallyMergeable(list, i, i + 2) /\ WalkReaches(list, i, reports)) =>
                  Merged(reports, list, i) /\ ~Merged(reports, list, i + 1)
        /\ \A i \in 1..(Len(list) - 3) :
              (MutuallyMergeable(list, i, i + 3) /\ WalkReaches(list, i, reports)) =>
                  /\ Merged(reports, list, i) /\ Merged(reports, list, i + 2)
                  /\ ~Merged(reports, list, i + 1)

\* C13 witness: a walk of four mutually mergeable objects has reported two
\* merges, of the first with the second and of the third with the fourth.
C13_Witness ==
    \E k \in 1..Len(calls) :
        LET list == WalkedList(Visits(ast)[k]) IN
        /\ Len(list) = 4 /\ MutuallyMergeable(list, 1, 4)
        /\ Len(calls[k].reports) = 2
        /\ Merged(calls[k].reports, list, 1) /\ Merged(calls[k].reports, list, 3)

====
